---------------------------- MODULE Spec2Model ----------------------------
(***************************************************************************)
(* A model of clayfreeman/Utility: the static helpers of class Utility     *)
(* (explode, implode, ltrim, rtrim, trim, repeat, replace, strtolower) and *)
(* Utility::parse_addr, which asks getaddrinfo for a numeric address and   *)
(* copies the first result into a sockaddr_storage.                        *)
(*                                                                         *)
(* A std::string is a sequence of characters; positions are 0-based as in  *)
(* the source (std::size_t), and std::string::npos is the value npos.      *)
(* One behaviour is one call: Init draws the operation and its arguments,  *)
(* the operation's action runs the whole function body.                    *)
(***************************************************************************)
EXTENDS Integers, Sequences, FiniteSets, TLC

VARIABLES
    pc,         \* "call" before the function body runs, "done" after it
    op,         \* the member function called
    s, d, v, n, \* arguments of explode, implode, repeat and the trims
    arg_s,      \* the caller's string as it was when the call was made
    search, repl, subject,  \* arguments of replace
    addr,       \* argument of parse_addr
    gai,        \* what getaddrinfo answered during the call
    live,       \* result lists getaddrinfo allocated and nobody freed yet
    ret,        \* the value returned
    exc, what,  \* the exception thrown ("none" if none) and its message
    graphHigh   \* what std::isgraph answers for a byte >= 0x80 in this build

vars == <<pc, op, s, d, v, n, arg_s, search, repl, subject, addr,
          gai, live, ret, exc, what, graphHigh>>

(***************************************************************************)
(* Bounds of the model.                                                    *)
(***************************************************************************)
MaxStr == 5
MaxDelim == 2
MaxElem == 1
MaxParts == 3
MaxN == 3
SockLen == 1
MaxCand == 2

\* The number of vector elements the process can allocate before push_back
\* throws std::bad_alloc; larger than any vector a terminating call builds.
MemLimit == MaxParts * (MaxElem + MaxDelim) + MaxStr + 2

(***************************************************************************)
(* Characters and strings.                                                 *)
(***************************************************************************)
Letters == {"a", "b"}
\* "hi" stands for a byte >= 0x80: a negative char, for which the result of
\* std::isgraph is not defined by the language and is fixed by the C library
\* and locale of the build (graphHigh).
TrimChars == {"a", " ", "hi"}
CaseChars == {"A", "a", "1"}

StrOver(A, k) == UNION {[1..m -> A] : m \in 0..k}

Min(a, b) == IF a < b THEN a ELSE b

SeqsOver(S, k) == UNION {[1..m -> S] : m \in 0..k}

(***************************************************************************)
(* std::string primitives used by the source.                              *)
(***************************************************************************)
npos == -1

\* s.substr(pos, len): at most len characters starting at position pos.
Substr(str, pos, len) == SubSeq(str, pos + 1, Min(pos + len, Len(str)))

\* s.substr(pos): the rest of s from position pos.
SubstrFrom(str, pos) == SubSeq(str, pos + 1, Len(str))

\* Whether pat occurs in str at position pos.
MatchAt(str, pat, pos) ==
    /\ pos + Len(pat) <= Len(str)
    /\ \A k \in 1..Len(pat) : str[pos + k] = pat[k]

\* s.find(pat, pos): the lowest position >= pos where pat occurs, else npos.
\* An empty pat is found at pos itself whenever pos <= s.size().
Find(str, pat, pos) ==
    LET hits == {p \in pos..Len(str) : MatchAt(str, pat, p)}
    IN  IF hits = {} THEN npos
        ELSE CHOOSE p \in hits : \A q \in hits : p <= q

\* s.replace(pos, len, with): the len characters at pos replaced by with.
StrReplace(str, pos, len, with) ==
    SubSeq(str, 1, pos) \o with \o SubSeq(str, pos + len + 1, Len(str))

\* The value a call hands back: its return value, or the exception it threw.
Returned(value) == [exc |-> "none", what |-> <<>>, ret |-> value]
Threw(type, message) == [exc |-> type, what |-> message, ret |-> <<>>]

(***************************************************************************)
(* Utility::explode                                                        *)
(***************************************************************************)
\* explode_loop advancing lpos by one character instead of d.length().
RECURSIVE explode_loop_by_one(_, _, _, _)
explode_loop_by_one(str, delim, lpos, result) ==
    LET cpos == Find(str, delim, lpos)
    IN  IF cpos # npos
        THEN IF Len(result) >= MemLimit
             THEN Threw("std::bad_alloc", <<"std::bad_alloc">>)
             ELSE explode_loop_by_one(str, delim, cpos + 1,
                                      Append(result, Substr(str, lpos, cpos - lpos)))
        ELSE Returned(Append(result, SubstrFrom(str, lpos)))

\* The for loop of explode from the state (lpos, result): cpos = s.find(d,
\* lpos); while it is not npos, push s.substr(lpos, cpos - lpos) and set
\* lpos = cpos + d.length(); then push s.substr(lpos).
RECURSIVE explode_loop(_, _, _, _)
explode_loop(str, delim, lpos, result) ==
    LET cpos == Find(str, delim, lpos)
    IN  IF cpos # npos
        THEN IF Len(result) >= MemLimit
             THEN Threw("std::bad_alloc", <<"std::bad_alloc">>)
             ELSE explode_loop(str, delim, cpos + Len(delim),
                               Append(result, Substr(str, lpos, cpos - lpos)))
        ELSE Returned(Append(result, SubstrFrom(str, lpos)))

explode(str, delim) == explode_loop(str, delim, 0, <<>>)

(***************************************************************************)
(* Utility::implode                                                        *)
(***************************************************************************)
\* One iteration of the range-for of implode over element part.
implode_step(result, part, delim) ==
    (IF Len(result) > 0 THEN result \o delim ELSE result) \o part

RECURSIVE implode_loop(_, _, _, _)
implode_loop(vec, delim, i, result) ==
    IF i > Len(vec) THEN result
    ELSE implode_loop(vec, delim, i + 1, implode_step(result, vec[i], delim))

implode(vec, delim) == implode_loop(vec, delim, 1, <<>>)

(***************************************************************************)
(* Utility::repeat                                                         *)
(***************************************************************************)
\* repeat_loop with the loop test i <= n instead of i < n.
RECURSIVE repeat_loop_inclusive(_, _, _, _)
repeat_loop_inclusive(str, count, i, result) ==
    IF i <= count THEN repeat_loop_inclusive(str, count, i + 1, result \o str)
    ELSE result

RECURSIVE repeat_loop(_, _, _, _)
repeat_loop(str, count, i, result) ==
    IF i < count THEN repeat_loop(str, count, i + 1, result \o str)
    ELSE result

repeat(str, count) == repeat_loop(str, count, 0, <<>>)

(***************************************************************************)
(* Utility::replace                                                        *)
(***************************************************************************)
\* replace_loop resuming the search one character too far.
RECURSIVE replace_loop_skip(_, _, _, _)
replace_loop_skip(srch, with, result, offset) ==
    IF offset = npos THEN result
    ELSE LET replaced   == StrReplace(result, offset, Len(srch), with)
             search_pos == offset + Len(with) + 1
         IN  replace_loop_skip(srch, with, replaced, Find(replaced, srch, search_pos))

\* The for loop of replace from the state (result, offset): replace at
\* offset, then search again from offset + replace.length().
RECURSIVE replace_loop(_, _, _, _)
replace_loop(srch, with, result, offset) ==
    IF offset = npos THEN result
    ELSE LET replaced   == StrReplace(result, offset, Len(srch), with)
             search_pos == offset + Len(with)
         IN  replace_loop(srch, with, replaced, Find(replaced, srch, search_pos))

replace(srch, with, subj) ==
    IF Len(srch) > 0 THEN replace_loop(srch, with, subj, Find(subj, srch, 0))
    ELSE subj

(***************************************************************************)
(* Utility::ltrim, Utility::rtrim, Utility::trim                           *)
(***************************************************************************)
\* std::isgraph in the "C" locale; for a byte >= 0x80 what the build answers.
isgraph(c, high) == IF c = "hi" THEN high ELSE c # " "

\* std::find_if(first, end, isgraph) over positions first..Len(str): the
\* lowest position holding a graphic character, Len(str) + 1 (end) if none.
RECURSIVE find_if(_, _, _)
find_if(str, first, high) ==
    IF first > Len(str) THEN first
    ELSE IF isgraph(str[first], high) THEN first
    ELSE find_if(str, first + 1, high)

\* rfind_if_base without the reverse iterator's base(): the position before
\* the last graphic character.
RECURSIVE rfind_if_no_base(_, _, _)
rfind_if_no_base(str, last, high) ==
    IF last = 0 THEN 0
    ELSE IF isgraph(str[last], high) THEN last - 1
    ELSE rfind_if_no_base(str, last - 1, high)

\* std::find_if(s.rbegin(), s.rend(), isgraph).base(): the number of
\* characters up to and including the last graphic one, 0 (begin) if none.
RECURSIVE rfind_if_base(_, _, _)
rfind_if_base(str, last, high) ==
    IF last = 0 THEN 0
    ELSE IF isgraph(str[last], high) THEN last
    ELSE rfind_if_base(str, last - 1, high)

ltrim(str, high) == SubSeq(str, find_if(str, 1, high), Len(str))

rtrim(str, high) == SubSeq(str, 1, rfind_if_base(str, Len(str), high))

trim(str, high) == ltrim(rtrim(str, high), high)

(***************************************************************************)
(* Utility::strtolower                                                     *)
(***************************************************************************)
\* ::tolower in the "C" locale.
tolower(c) == IF c = "A" THEN "a" ELSE c

strtolower(str) == [i \in 1..Len(str) |-> tolower(str[i])]

(***************************************************************************)
(* Utility::parse_addr and the resolution service it calls.                *)
(***************************************************************************)
Families == {"AF_INET", "AF_INET6", "AF_UNIX"}
Bytes == {0, 1}

\* The size of the socket address of each family, in model bytes, byte 1
\* being sa_family; sockaddr_storage is larger than every one of them.
SockaddrLen(family) == IF family = "AF_INET6" THEN SockLen + 2 ELSE SockLen + 1
StorageLen == SockLen + 3

\* A struct addrinfo of the list getaddrinfo returns.
Candidates ==
    UNION {{[ai_family |-> f, ai_addrlen |-> SockaddrLen(f), ai_addr |-> <<f>> \o data] :
              data \in [1..(SockaddrLen(f) - 1) -> Bytes]} : f \in Families}

\* What getaddrinfo can answer: an error code and no list, success and no
\* list, or success and a list of one or more candidates.
GaiAnswers ==
    {[rc |-> "EAI_NONAME", res |-> <<>>], [rc |-> "0", res |-> <<>>]}
        \cup {[rc |-> "0", res |-> list] :
                list \in UNION {[1..m -> Candidates] : m \in 1..MaxCand}}

NoAnswer == [rc |-> "none", res |-> <<>>]

\* struct sockaddr_storage address = {};
ZeroStorage == [i \in 1..StorageLen |-> 0]

\* memcpy of sizeof(struct sockaddr) bytes, the IPv4 size, whatever len is.
memcpy_sockaddr(dst, src, len) ==
    [i \in 1..Len(dst) |-> IF i <= Min(len, SockLen + 1) THEN src[i] ELSE dst[i]]

\* memcpy(&dst, src, len): the first len bytes of dst replaced by those of src.
memcpy(dst, src, len) == [i \in 1..Len(dst) |-> IF i <= len THEN src[i] ELSE dst[i]]

ParseFailure == <<"Could not parse the provided address.">>

\* parse_addr without the test of the first candidate's family.
parse_addr_any_family(text, answer) ==
    LET res       == answer.res
        allocated == IF answer.rc = "0" /\ res # <<>> THEN {"res"} ELSE {}
    IN  IF answer.rc # "0" \/ res = <<>>
        THEN [exc |-> "std::runtime_error", what |-> ParseFailure,
              ret |-> <<>>, live |-> allocated]
        ELSE [exc |-> "none", what |-> <<>>,
              ret |-> memcpy(ZeroStorage, res[1].ai_addr, res[1].ai_addrlen),
              live |-> allocated \ {"res"}]

\* The body of parse_addr given getaddrinfo's answer: the outcome and the
\* result lists still allocated when the function is left.
parse_addr(text, answer) ==
    LET res       == answer.res
        allocated == IF answer.rc = "0" /\ res # <<>> THEN {"res"} ELSE {}
    IN  IF \/ answer.rc # "0"
           \/ res = <<>>
           \/ (res[1].ai_family # "AF_INET" /\ res[1].ai_family # "AF_INET6")
        THEN [exc |-> "std::runtime_error", what |-> ParseFailure,
              ret |-> <<>>, live |-> allocated]
        ELSE [exc |-> "none", what |-> <<>>,
              ret |-> memcpy(ZeroStorage, res[1].ai_addr, res[1].ai_addrlen),
              live |-> allocated \ {"res"}]

(***************************************************************************)
(* The state machine: one call of one member function.                     *)
(***************************************************************************)
AddrTexts == {"127.0.0.1", "::1", "example.com", "999.1.1.1"}

Init ==
    /\ pc = "call"
    /\ ret = <<>> /\ exc = "none" /\ what = <<>>
    /\ gai = NoAnswer /\ live = {}
    /\ graphHigh \in BOOLEAN
    /\ \/ /\ op = "explode"
          /\ s \in StrOver(Letters, MaxStr) /\ d \in StrOver(Letters, MaxDelim)
          /\ v = <<>> /\ n = 0
          /\ search = <<>> /\ repl = <<>> /\ subject = <<>> /\ addr = ""
       \/ /\ op = "implode"
          /\ v \in SeqsOver(StrOver(Letters, MaxElem), MaxParts)
          /\ d \in StrOver(Letters, MaxDelim)
          /\ s = <<>> /\ n = 0
          /\ search = <<>> /\ repl = <<>> /\ subject = <<>> /\ addr = ""
       \/ /\ op \in {"ltrim", "rtrim", "trim"}
          /\ s \in StrOver(TrimChars, MaxStr)
          /\ d = <<>> /\ v = <<>> /\ n = 0
          /\ search = <<>> /\ repl = <<>> /\ subject = <<>> /\ addr = ""
       \/ /\ op = "repeat"
          /\ s \in StrOver(Letters, MaxDelim) /\ n \in (0 - MaxN)..MaxN
          /\ d = <<>> /\ v = <<>>
          /\ search = <<>> /\ repl = <<>> /\ subject = <<>> /\ addr = ""
       \/ /\ op = "replace"
          /\ search \in StrOver(Letters, MaxDelim)
          /\ repl \in StrOver(Letters, MaxDelim)
          /\ subject \in StrOver(Letters, MaxStr)
          /\ s = <<>> /\ d = <<>> /\ v = <<>> /\ n = 0 /\ addr = ""
       \/ /\ op = "strtolower"
          /\ s \in StrOver(CaseChars, MaxStr)
          /\ d = <<>> /\ v = <<>> /\ n = 0
          /\ search = <<>> /\ repl = <<>> /\ subject = <<>> /\ addr = ""
       \/ /\ op = "parse_addr"
          /\ addr \in AddrTexts
          /\ s = <<>> /\ d = <<>> /\ v = <<>> /\ n = 0
          /\ search = <<>> /\ repl = <<>> /\ subject = <<>>
    /\ arg_s = s

args == <<op, d, v, n, arg_s, search, repl, subject, addr, graphHigh>>

\* A call that leaves its arguments alone and hands back outcome r.
Hand(r) ==
    /\ pc' = "done"
    /\ ret' = r.ret /\ exc' = r.exc /\ what' = r.what
    /\ UNCHANGED <<args, s, gai, live>>

\* A trim: the caller's string is changed in place, a reference to it returned.
InPlace(trimmed) ==
    /\ pc' = "done"
    /\ s' = trimmed /\ ret' = trimmed
    /\ UNCHANGED <<args, gai, live, exc, what>>

Explode == pc = "call" /\ op = "explode" /\ Hand(explode(s, d))

Implode == pc = "call" /\ op = "implode" /\ Hand(Returned(implode(v, d)))

Ltrim == pc = "call" /\ op = "ltrim" /\ InPlace(ltrim(s, graphHigh))

Rtrim == pc = "call" /\ op = "rtrim" /\ InPlace(rtrim(s, graphHigh))

Trim == pc = "call" /\ op = "trim" /\ InPlace(trim(s, graphHigh))

Repeat == pc = "call" /\ op = "repeat" /\ Hand(Returned(repeat(s, n)))

Replace == pc = "call" /\ op = "replace" /\ Hand(Returned(replace(search, repl, subject)))

Strtolower == pc = "call" /\ op = "strtolower" /\ Hand(Returned(strtolower(s)))

ParseAddr ==
    /\ pc = "call" /\ op = "parse_addr"
    /\ \E answer \in GaiAnswers :
          LET r == parse_addr(addr, answer)
          IN  /\ gai' = answer
              /\ live' = r.live
              /\ ret' = r.ret /\ exc' = r.exc /\ what' = r.what
    /\ pc' = "done"
    /\ UNCHANGED <<args, s>>

Next ==
    \/ Explode
    \/ Implode
    \/ Ltrim
    \/ Rtrim
    \/ Trim
    \/ Repeat
    \/ Replace
    \/ Strtolower
    \/ ParseAddr

Spec == Init /\ [][Next]_vars

(***************************************************************************)
(* Reference definitions the properties are stated with.                   *)
(***************************************************************************)
Range(f) == {f[i] : i \in DOMAIN f}

IsPrefix(pat, str) == MatchAt(str, pat, 0)

Contains(str, pat) == \E p \in 0..Len(str) : MatchAt(str, pat, p)

Drop(str, k) == SubSeq(str, k + 1, Len(str))

\* parts[1] d parts[2] d ... d parts[k].
RECURSIVE JoinRef(_, _)
JoinRef(parts, delim) ==
    IF parts = <<>> THEN <<>>
    ELSE IF Len(parts) = 1 THEN parts[1]
    ELSE parts[1] \o delim \o JoinRef(Tail(parts), delim)

\* The pieces of rest between the non-overlapping occurrences of a non-empty
\* delim met reading left to right, cur being the piece collected so far.
RECURSIVE SplitRef(_, _, _)
SplitRef(rest, delim, cur) ==
    IF rest = <<>> THEN <<cur>>
    ELSE IF IsPrefix(delim, rest)
         THEN <<cur>> \o SplitRef(Drop(rest, Len(delim)), delim, <<>>)
         ELSE SplitRef(Tail(rest), delim, Append(cur, Head(rest)))

\* The number of those occurrences.
RECURSIVE Occurrences(_, _)
Occurrences(rest, delim) ==
    IF rest = <<>> THEN 0
    ELSE IF IsPrefix(delim, rest) THEN 1 + Occurrences(Drop(rest, Len(delim)), delim)
    ELSE Occurrences(Tail(rest), delim)

\* rest with each of those occurrences of a non-empty srch replaced by with.
RECURSIVE ReplaceRef(_, _, _)
ReplaceRef(srch, with, rest) ==
    IF rest = <<>> THEN <<>>
    ELSE IF IsPrefix(srch, rest)
         THEN with \o ReplaceRef(srch, with, Drop(rest, Len(srch)))
         ELSE <<Head(rest)>> \o ReplaceRef(srch, with, Tail(rest))

\* The positions of str that hold a graphic character.
Graphic(str) == {i \in 1..Len(str) : isgraph(str[i], graphHigh)}

\* str from its first to its last graphic character, empty if it has none.
TrimRef(str) ==
    IF Graphic(str) = {} THEN <<>>
    ELSE LET first == CHOOSE i \in Graphic(str) : \A j \in Graphic(str) : i <= j
             last  == CHOOSE i \in Graphic(str) : \A j \in Graphic(str) : j <= i
         IN  SubSeq(str, first, last)

Exited(f) == op = f /\ pc = "done"

\* getaddrinfo reported an error, no match, or a first candidate of a family
\* that is neither IPv4 nor IPv6.
ResolutionFailed ==
    \/ gai.rc # "0"
    \/ gai.res = <<>>
    \/ gai.res[1].ai_family \notin {"AF_INET", "AF_INET6"}

(***************************************************************************)
(* Properties.                                                             *)
(***************************************************************************)

C3_SuccessIsFirstCandidate ==
    (Exited("parse_addr") /\ exc = "none") =>
        /\ gai.rc = "0" /\ gai.res # <<>>
        /\ ret[1] \in {"AF_INET", "AF_INET6"}
        /\ ret[1] = gai.res[1].ai_family
        /\ SubSeq(ret, 1, gai.res[1].ai_addrlen) = gai.res[1].ai_addr

C3_Witness ==
    /\ Exited("parse_addr") /\ exc = "none"
    /\ Len(gai.res) = 2
    /\ gai.res[1].ai_family = "AF_INET6" /\ gai.res[2].ai_family = "AF_INET"
    /\ 1 \in Range(Tail(gai.res[1].ai_addr))
    /\ ret[1] = "AF_INET6"

\* C4: explode(implode(parts, d), d) = parts whenever d is non-empty and no
\* element of parts contains d.  Stated for the inputs on which a join that
\* puts d between every two elements and a split at every d are inverse:
\* parts non-empty and d a single character.
C4_RoundTrip ==
    (/\ Exited("implode")
     /\ v # <<>> /\ Len(d) = 1
     /\ \A i \in 1..Len(v) : ~Contains(v[i], d)) =>
        explode(ret, d) = Returned(v)

\* C5: implode(parts, d) is parts[1] d parts[2] d ... d parts[k], the
\* delimiter once between every two consecutive elements, empty elements
\* included; the empty string for no parts, the element itself for one.
C5_ImplodeJoins == Exited("implode") => ret = JoinRef(v, d)

\* C6: replace(search, replacement, subject) is subject with every
\* non-overlapping occurrence of search, read left to right, replaced by
\* replacement, the replaced text never being searched again; an empty
\* search leaves subject unchanged.
C6_ReplaceAll ==
    Exited("replace") =>
        /\ exc = "none"
        /\ search # <<>> => ret = ReplaceRef(search, repl, subject)
        /\ search = <<>> => ret = subject

C6_Witness ==
    /\ Exited("replace")
    /\ search = <<"a">> /\ repl = <<"a", "a">> /\ subject = <<"a", "b", "a">>
    /\ ret = <<"a", "a", "b", "a", "a">>

\* C7: for a non-empty delimiter d, explode(s, d) is, in order, the pieces
\* of s between the non-overlapping occurrences of d read left to right: one
\* more piece than occurrences, s alone if d never occurs, one empty string
\* if s is empty.
C7_ExplodeSplits ==
    (Exited("explode") /\ d # <<>>) =>
        /\ exc = "none"
        /\ ret = SplitRef(s, d, <<>>)
        /\ Len(ret) = Occurrences(s, d) + 1
        /\ JoinRef(ret, d) = s
        /\ ~Contains(s, d) => ret = <<s>>
        /\ s = <<>> => ret = << <<>> >>

C7_Witness ==
    /\ Exited("explode")
    /\ s = <<"a", "a", "a", "b">> /\ d = <<"a">>
    /\ ret = << <<>>, <<>>, <<>>, <<"b">> >>

\* C8: every string helper is total: each call terminates and returns a
\* result, explode with an empty delimiter and replace with an empty search
\* or a replacement that contains the search included.
C8_Total == (pc = "done" /\ op # "parse_addr") => exc = "none"

\* C9: trim(s) removes exactly the leading and the trailing run of
\* non-graphic characters and leaves what lies between the first and the
\* last graphic character unchanged; a string with no graphic character
\* trims to the empty string, and trimming twice is trimming once.
C9_TrimBothEnds ==
    Exited("trim") =>
        /\ s = TrimRef(arg_s)
        /\ ret = s
        /\ Graphic(arg_s) = {} => s = <<>>
        /\ trim(s, graphHigh) = s

C9_Witness ==
    /\ Exited("trim")
    /\ arg_s = <<" ", "a", " ", "a", " ">>
    /\ s = <<"a", " ", "a">>

\* C10: repeat(s, n) is s concatenated n times for n >= 0 and the empty
\* string for every negative n, with no error; s is not modified.
C10_Repeat ==
    Exited("repeat") =>
        /\ exc = "none"
        /\ s = arg_s
        /\ n >= 0 => /\ Len(ret) = n * Len(s)
                     /\ \A k \in 1..Len(ret) : ret[k] = s[((k - 1) % Len(s)) + 1]
        /\ n < 0 => ret = <<>>

C10_Witness ==
    /\ Exited("repeat")
    /\ n < 0 /\ s = <<"a", "b">> /\ ret = <<>>

=============================================================================
